---- MODULE Spec2Model ----
(***************************************************************************)
(* Model of AssemblyLineBalancingProblem                                   *)
(* (src/assembly_line_balancing_problem.py): the explicit constructor, the *)
(* positional token-stream loader, evaluate_solution and random_solution.  *)
(*                                                                         *)
(* Python values are represented as follows.                               *)
(*   - a list is a sequence; Python's 0-based index i is position i + 1;   *)
(*   - a dict is a sequence of [key, ...] records in insertion order       *)
(*     (successors, which the evaluator iterates in that order) or a       *)
(*     function (processing_time_dict, station_times);                     *)
(*   - a station entry of a candidate solution is [int, v]: the integer v  *)
(*     when int is TRUE, the non-integer v + 0.5 when int is FALSE;        *)
(*   - a candidate solution is [type, items], type being the Python type   *)
(*     of the object handed to evaluate_solution;                          *)
(*   - a token of the instance file is [kind, a, b]: an integer literal a, *)
(*     a token "a,b" holding one comma between two integer literals, a     *)
(*     word with no comma that int() rejects, or a comma token that the    *)
(*     split/int conversion rejects.                                       *)
(***************************************************************************)
EXTENDS Integers, Sequences, FiniteSets, TLC

VARIABLES
    pc,               \* "new" | "failed" | "ready" | "called" | "returned"
    tokens,           \* the token stream handed to the loader (<<>> if none)
    nb_tasks,         \* self.nb_tasks
    max_nb_stations,  \* self.max_nb_stations
    cycle_time,       \* self.cycle_time
    processing_time,  \* self.processing_time
    successors,       \* self.successors
    solution,         \* the caller's candidate solution object
    result            \* outcome of the last call (construction or evaluation)

self == [nb_tasks |-> nb_tasks, max_nb_stations |-> max_nb_stations,
         cycle_time |-> cycle_time, processing_time |-> processing_time,
         successors |-> successors]
vars == <<pc, tokens, nb_tasks, max_nb_stations, cycle_time, processing_time,
          successors, solution, result>>

\* ------------------------------------------------------------------ bounds
MaxTasks == 2
MaxCycle == 2
\* A task count no list of the model can match: only the field is kept.
HugeTaskCount == 1000000000

Times == 0 .. MaxCycle
CycleTimes == 1 .. MaxCycle

\* ------------------------------------------------------------ Python values
None == [type |-> "NoneType", items |-> <<>>]

Entry(v) == [int |-> TRUE, v |-> v]
NonInt(v) == [int |-> FALSE, v |-> v]

\* isinstance(s, int)
IsInt(s) == s.int

\* Twice the numeric value of a station entry, so that v + 0.5 stays integral.
Num2(s) == IF s.int THEN 2 * s.v ELSE 2 * s.v + 1

\* seq[i] for a Python list: negative indices count from the end, anything
\* outside [-len, len) raises IndexError.
InIndexRange(seq, i) == (0 - Len(seq)) <= i /\ i < Len(seq)
PyIndex(seq, i) == IF i >= 0 THEN seq[i + 1] ELSE seq[Len(seq) + i + 1]

Return(v, stage) == [kind |-> "return", value |-> v, error |-> "", stage |-> stage]
Raise(e, stage) == [kind |-> "raise", value |-> 0, error |-> e, stage |-> stage]
NoResult == [kind |-> "none", value |-> 0, error |-> "", stage |-> ""]

\* ------------------------------------------------------- evaluate_solution
\* Variant: a sentinel no larger than a station count can be.
PenaltyWithinCounts == MaxTasks

PENALTY == 1000000000

\* Variant: the length of the candidate is not compared with nb_tasks.
ShapeErrorTypeOnly(sol) == sol.type \notin {"list", "tuple"}

\* not isinstance(solution, (list, tuple)) or len(solution) != self.nb_tasks
ShapeError(sol) ==
    \/ sol.type \notin {"list", "tuple"}
    \/ Len(sol.items) # nb_tasks

\* Variant: negative station numbers are let through.
InvalidStationNoLowerBound(s) == ~IsInt(s) \/ s.v >= max_nb_stations

\* not isinstance(s, int) or s < 0 or s >= self.max_nb_stations
InvalidStation(s) ==
    \/ ~IsInt(s)
    \/ s.v < 0
    \/ s.v >= max_nb_stations

\* Variant: a station filled exactly to the limit counts as over it.
CapacityExceededAtLimit(total) == total >= cycle_time

\* station_times[station] > self.cycle_time
CapacityExceeded(total) == total > cycle_time

\* station_times.setdefault(station, 0); station_times[station] += t
AddTime(station_times, station, t) ==
    LET old == IF station \in DOMAIN station_times THEN station_times[station] ELSE 0
    IN  [k \in (DOMAIN station_times) \cup {station} |->
            IF k = station THEN old + t ELSE station_times[k]]

\* The capacity loop from list position i on: "ok", "penalty" (returned at the
\* first running total above the limit) or "IndexError" (processing_time[i]
\* does not exist).
RECURSIVE CapacityLoop(_, _, _)
CapacityLoop(items, i, station_times) ==
    IF i > Len(items) THEN "ok"
    ELSE IF i > Len(processing_time) THEN "IndexError"
    ELSE LET st == AddTime(station_times, items[i], processing_time[i])
         IN  IF CapacityExceeded(st[items[i]]) THEN "penalty"
             ELSE CapacityLoop(items, i + 1, st)

\* Variant: the comparison of the two stations is reversed.
StationBefore(si, sj) == Num2(si) < Num2(sj)

\* solution[i] > solution[j]
StationAfter(si, sj) == Num2(si) > Num2(sj)

\* for j in succs: if solution[i] > solution[j]: return PENALTY
RECURSIVE SuccsLoop(_, _, _, _)
SuccsLoop(items, i, succs, k) ==
    IF k > Len(succs) THEN "ok"
    ELSE IF ~InIndexRange(items, i) \/ ~InIndexRange(items, succs[k]) THEN "IndexError"
    ELSE IF StationAfter(PyIndex(items, i), PyIndex(items, succs[k])) THEN "penalty"
    ELSE SuccsLoop(items, i, succs, k + 1)

\* for i, succs in self.successors.items(): ...
RECURSIVE PrecedenceLoop(_, _)
PrecedenceLoop(items, e) ==
    IF e > Len(successors) THEN "ok"
    ELSE LET r == SuccsLoop(items, successors[e].key, successors[e].succs, 1)
         IN  IF r # "ok" THEN r ELSE PrecedenceLoop(items, e + 1)

\* Variant: the highest station index plus one.
HighestIndexPlusOne(items) ==
    IF items = <<>> THEN 0
    ELSE 1 + (CHOOSE m \in {items[k].v : k \in 1 .. Len(items)} :
                \A k \in 1 .. Len(items) : items[k].v <= m)

\* len(set(solution))
num_stations_used(items) == Cardinality({items[k] : k \in 1 .. Len(items)})

evaluate_solution(sol) ==
    IF ShapeError(sol) THEN Raise("ValueError", "shape")
    ELSE IF \E k \in 1 .. Len(sol.items) : InvalidStation(sol.items[k])
        THEN Return(PENALTY, "station")
    ELSE LET cap == CapacityLoop(sol.items, 1, <<>>) IN
    IF cap = "penalty" THEN Return(PENALTY, "capacity")
    ELSE IF cap = "IndexError" THEN Raise("IndexError", "capacity")
    ELSE LET prec == PrecedenceLoop(sol.items, 1) IN
    IF prec = "penalty" THEN Return(PENALTY, "precedence")
    ELSE IF prec = "IndexError" THEN Raise("IndexError", "precedence")
    ELSE Return(num_stations_used(sol.items), "objective")

\* Variant: the precedence loop looks tasks up with
\* self.successors.setdefault(i, []), leaving an entry for every task.
RECURSIVE WithDefaultSuccessors(_, _)
WithDefaultSuccessors(succs, i) ==
    IF i >= Len(processing_time) THEN succs
    ELSE WithDefaultSuccessors(
            IF \E e \in 1 .. Len(succs) : succs[e].key = i THEN succs
            ELSE Append(succs, [key |-> i, succs |-> <<>>]), i + 1)
SelfAfterSetdefault(sol) ==
    [self EXCEPT !.successors =
        IF evaluate_solution(sol).stage \in {"precedence", "objective"}
        THEN WithDefaultSuccessors(successors, 0) ELSE successors]

\* The instance fields as evaluate_solution leaves them: it assigns to no
\* attribute of self and calls no mutating method on one.
SelfAfterEvaluate(sol) == self

\* The caller's object as evaluate_solution leaves it: it is only iterated,
\* indexed and copied into a set.
SolutionAfterEvaluate(sol) == sol

\* ------------------------------------------------------------ construction
\* if pred in self.successors: self.successors[pred].append(succ)
\* else: self.successors[pred] = [succ]
AddSuccessor(succs, pred, succ) ==
    IF \E e \in 1 .. Len(succs) : succs[e].key = pred
    THEN [e \in 1 .. Len(succs) |->
            IF succs[e].key = pred
            THEN [key |-> pred, succs |-> Append(succs[e].succs, succ)]
            ELSE succs[e]]
    ELSE Append(succs, [key |-> pred, succs |-> <<succ>>])

\* The dict a caller obtains by recording the given precedence pairs in order.
RECURSIVE DictOfEdges(_)
DictOfEdges(edges) ==
    IF edges = <<>> THEN <<>>
    ELSE LET n == Len(edges)
         IN  AddSuccessor(DictOfEdges(SubSeq(edges, 1, n - 1)), edges[n][1], edges[n][2])

\* The pairs of a set in lexicographic order.
EdgeBefore(a, b) == a[1] < b[1] \/ (a[1] = b[1] /\ a[2] < b[2])
RECURSIVE SeqOfEdges(_)
SeqOfEdges(E) ==
    IF E = {} THEN <<>>
    ELSE LET m == CHOOSE a \in E : \A b \in E \ {a} : EdgeBefore(a, b)
         IN  <<m>> \o SeqOfEdges(E \ {m})

\* Input sets of the explicit constructor: the fields a caller passes.
TaskCounts == (1 .. MaxTasks) \cup {HugeTaskCount}
ForwardEdges(n) == {e \in (0 .. n - 1) \X (0 .. n - 1) : e[1] < e[2]}
StationCounts(n) == IF n > MaxTasks THEN {n} ELSE 1 .. n
ProcessingTimes(n) == IF n > MaxTasks THEN {<<>>} ELSE [1 .. n -> Times]
SuccessorDicts(n) ==
    IF n > MaxTasks THEN {<<>>}
    ELSE {DictOfEdges(SeqOfEdges(E)) : E \in SUBSET ForwardEdges(n)}

\* Input set of evaluate_solution: the objects a caller passes.
StationEntries == {Entry(v) : v \in (0 - 1) .. MaxTasks} \cup {NonInt(0)}
SolutionTypes == {"list", "tuple", "ndarray"}
Solutions ==
    {[type |-> t, items |-> s] :
        t \in SolutionTypes,
        s \in UNION {[1 .. m -> StationEntries] : m \in 0 .. MaxTasks}}

\* ------------------------------------------------- _load_instance_from_file
IntTok(a) == [kind |-> "int", a |-> a, b |-> 0]
PairTok(a, b) == [kind |-> "pair", a |-> a, b |-> b]
WordTok == [kind |-> "word", a |-> 0, b |-> 0]
BadCommaTok == [kind |-> "badcomma", a |-> 0, b |-> 0]

\* int(token) succeeds on an integer literal only.
IsIntLiteral(tok) == tok.kind = "int"
\* ',' in token
HasComma(tok) == tok.kind \in {"pair", "badcomma"}
\* pred, succ = token.split(','); int(pred); int(succ) succeeds
SplitsToInts(tok) == tok.kind = "pair"

\* The skip counts of the positional scan.
HeaderSkip == 3
AfterTaskCountSkip == 2
AfterCycleTimeSkip == 5
AfterTimesSkip == 2

\* task = int(next(file_it)) - 1
TaskIndex(task_number) == task_number - 1

\* processing_time_dict[task] = t
DictSet(d, task, t) ==
    [k \in (DOMAIN d) \cup {task} |-> IF k = task THEN t ELSE d[k]]

\* The loop reading `left` (task number, time) pairs from position pos on.
RECURSIVE ReadTimes(_, _, _, _)
ReadTimes(toks, pos, left, processing_time_dict) ==
    IF left <= 0 THEN [error |-> "", pos |-> pos, dict |-> processing_time_dict]
    ELSE IF pos > Len(toks) THEN [error |-> "StopIteration", pos |-> pos, dict |-> processing_time_dict]
    ELSE IF ~IsIntLiteral(toks[pos]) THEN [error |-> "ValueError", pos |-> pos, dict |-> processing_time_dict]
    ELSE IF pos + 1 > Len(toks) THEN [error |-> "StopIteration", pos |-> pos, dict |-> processing_time_dict]
    ELSE IF ~IsIntLiteral(toks[pos + 1]) THEN [error |-> "ValueError", pos |-> pos, dict |-> processing_time_dict]
    ELSE ReadTimes(toks, pos + 2, left - 1,
                   DictSet(processing_time_dict, TaskIndex(toks[pos].a), toks[pos + 1].a))

\* Variant: the items are sorted by time (key=lambda x: x[1]).
RECURSIVE SortedByValue(_)
SortedByValue(d) ==
    IF DOMAIN d = {} THEN <<>>
    ELSE LET m == CHOOSE k \in DOMAIN d : \A j \in DOMAIN d : d[k] <= d[j]
         IN  <<d[m]>> \o SortedByValue([k \in (DOMAIN d) \ {m} |-> d[k]])

\* [elem[1] for elem in sorted(processing_time_dict.items(), key=lambda x: x[0])]
RECURSIVE SortedValues(_)
SortedValues(d) ==
    IF DOMAIN d = {} THEN <<>>
    ELSE LET m == CHOOSE k \in DOMAIN d : \A j \in DOMAIN d : k <= j
         IN  <<d[m]>> \o SortedValues([k \in (DOMAIN d) \ {m} |-> d[k]])

\* The while loop over the remaining tokens, from position pos on.
RECURSIVE ReadSuccessors(_, _, _)
ReadSuccessors(toks, pos, succs) ==
    IF pos > Len(toks) THEN [error |-> "", succs |-> succs]
    ELSE IF ~HasComma(toks[pos]) THEN ReadSuccessors(toks, pos + 1, succs)
    ELSE IF ~SplitsToInts(toks[pos]) THEN [error |-> "ValueError", succs |-> succs]
    ELSE ReadSuccessors(toks, pos + 1,
                        AddSuccessor(succs, toks[pos].a - 1, toks[pos].b - 1))

LoadFailed(e) ==
    [error |-> e, nb_tasks |-> 0, max_nb_stations |-> 0, cycle_time |-> 0,
     processing_time |-> <<>>, successors |-> <<>>]

\* The instance _load_instance_from_file builds from the tokens of the file,
\* or the exception that ends it.
load_instance_from_file(toks) ==
    LET nPos == HeaderSkip + 1
        cPos == nPos + AfterTaskCountSkip + 1
        tPos == cPos + AfterCycleTimeSkip + 1
    IN
    IF Len(toks) < nPos THEN LoadFailed("StopIteration")
    ELSE IF ~IsIntLiteral(toks[nPos]) THEN LoadFailed("ValueError")
    ELSE IF Len(toks) < cPos THEN LoadFailed("StopIteration")
    ELSE IF ~IsIntLiteral(toks[cPos]) THEN LoadFailed("ValueError")
    ELSE IF Len(toks) < tPos - 1 THEN LoadFailed("StopIteration")
    ELSE LET n == toks[nPos].a
             times == ReadTimes(toks, tPos, n, <<>>)
         IN
    IF times.error # "" THEN LoadFailed(times.error)
    ELSE IF Len(toks) < times.pos + AfterTimesSkip - 1 THEN LoadFailed("StopIteration")
    ELSE LET su == ReadSuccessors(toks, times.pos + AfterTimesSkip, <<>>) IN
    IF su.error # "" THEN LoadFailed(su.error)
    ELSE [error |-> "", nb_tasks |-> n, max_nb_stations |-> n,
          cycle_time |-> toks[cPos].a,
          processing_time |-> SortedValues(times.dict),
          successors |-> su.succs]

\* Input set of the loader: the token streams of instance files.
RECURSIVE Flatten(_)
Flatten(pairs) ==
    IF pairs = <<>> THEN <<>>
    ELSE <<IntTok(pairs[1][1]), IntTok(pairs[1][2])>> \o Flatten(Tail(pairs))

Words(k) == [i \in 1 .. k |-> WordTok]

MkStream(n, c, pairs, tail) ==
    Words(HeaderSkip) \o <<IntTok(n)>> \o Words(AfterTaskCountSkip) \o <<IntTok(c)>>
    \o Words(AfterCycleTimeSkip) \o Flatten(pairs) \o Words(AfterTimesSkip) \o tail

\* Task numbers a file may carry for n tasks: 1 .. n, and 0 and n + 1 besides.
FileTaskNumbers(n) == 0 .. n + 1
CanonicalPairs(n) == [k \in 1 .. n |-> <<k, 1>>]
TailTokens(n) ==
    {WordTok, BadCommaTok}
    \cup {PairTok(a, b) : a \in FileTaskNumbers(n), b \in FileTaskNumbers(n)}
MaxTail == 2
Tails(n) == UNION {[1 .. m -> TailTokens(n)] : m \in 0 .. MaxTail}

\* A stream that ends early or carries a word where an integer is read.
FullStream == MkStream(MaxTasks, MaxCycle, CanonicalPairs(MaxTasks), <<PairTok(1, 2)>>)
BrokenStreams ==
    {SubSeq(FullStream, 1, k) : k \in 0 .. Len(FullStream) - 1}
    \cup {[FullStream EXCEPT ![k] = WordTok] : k \in 1 .. Len(FullStream)}

Init ==
    /\ pc = "new"
    /\ tokens = <<>>
    /\ nb_tasks = 0
    /\ max_nb_stations = 0
    /\ cycle_time = 0
    /\ processing_time = <<>>
    /\ successors = <<>>
    /\ solution = None
    /\ result = NoResult

\* __init__ with instance_file None and all five fields given.
Construct ==
    /\ pc = "new"
    /\ \E n \in TaskCounts, c \in CycleTimes :
         \E m \in StationCounts(n), pt \in ProcessingTimes(n), su \in SuccessorDicts(n) :
            /\ nb_tasks' = n
            /\ max_nb_stations' = m
            /\ cycle_time' = c
            /\ processing_time' = pt
            /\ successors' = su
    /\ pc' = "ready"
    /\ UNCHANGED <<tokens, solution, result>>

\* __init__ with instance_file None and some field None.
ConstructMissing ==
    /\ pc = "new"
    /\ pc' = "failed"
    /\ result' = Raise("ValueError", "init")
    /\ UNCHANGED <<tokens, nb_tasks, max_nb_stations, cycle_time, processing_time,
                   successors, solution>>

\* The caller picks the object it is about to pass to evaluate_solution.
Supply ==
    /\ pc = "ready"
    /\ \E sol \in Solutions : solution' = sol
    /\ result' = NoResult
    /\ pc' = "called"
    /\ UNCHANGED <<tokens, nb_tasks, max_nb_stations, cycle_time, processing_time,
                   successors>>

\* evaluate_solution(solution) runs to its return or raise.
Evaluate ==
    /\ pc = "called"
    /\ result' = evaluate_solution(solution)
    /\ LET after == SelfAfterEvaluate(solution)
       IN  /\ nb_tasks' = after.nb_tasks
           /\ max_nb_stations' = after.max_nb_stations
           /\ cycle_time' = after.cycle_time
           /\ processing_time' = after.processing_time
           /\ successors' = after.successors
    /\ solution' = SolutionAfterEvaluate(solution)
    /\ pc' = "returned"
    /\ UNCHANGED tokens

\* The caller drops the candidate and the outcome; the instance stays in use.
Release ==
    /\ pc = "returned"
    /\ solution' = None
    /\ result' = NoResult
    /\ pc' = "ready"
    /\ UNCHANGED <<tokens, nb_tasks, max_nb_stations, cycle_time, processing_time,
                   successors>>

\* __init__ with instance_file given: the file's tokens are scanned.
LoadFromFile(toks) ==
    /\ pc = "new"
    /\ tokens' = toks
    /\ LET inst == load_instance_from_file(toks)
       IN  /\ nb_tasks' = inst.nb_tasks
           /\ max_nb_stations' = inst.max_nb_stations
           /\ cycle_time' = inst.cycle_time
           /\ processing_time' = inst.processing_time
           /\ successors' = inst.successors
           /\ pc' = IF inst.error = "" THEN "ready" ELSE "failed"
           /\ result' = IF inst.error = "" THEN NoResult ELSE Raise(inst.error, "load")
    /\ UNCHANGED solution

\* A file with any (task number, time) section and no precedence section.
LoadTimes ==
    /\ pc = "new"
    /\ \E n \in 1 .. MaxTasks, c \in CycleTimes :
        \E pairs \in [1 .. n -> FileTaskNumbers(n) \X Times] :
            LoadFromFile(MkStream(n, c, pairs, <<>>))

\* A file with any trailing section after the tasks listed in order.
LoadTail ==
    /\ pc = "new"
    /\ \E n \in 1 .. MaxTasks :
        \E tail \in Tails(n) :
            LoadFromFile(MkStream(n, MaxCycle, CanonicalPairs(n), tail))

\* A file that ends early or is not of the format.
LoadBroken == pc = "new" /\ \E toks \in BrokenStreams : LoadFromFile(toks)

\* random_solution(): [random.randint(0, max_nb_stations - 1) for _ in range(nb_tasks)]
random_solution ==
    {[type |-> "list", items |-> s] :
        s \in [1 .. nb_tasks -> {Entry(v) : v \in 0 .. max_nb_stations - 1}]}

\* The caller takes a candidate from random_solution().
SupplyRandom ==
    /\ pc = "ready"
    /\ \E sol \in random_solution : solution' = sol
    /\ result' = NoResult
    /\ pc' = "called"
    /\ UNCHANGED <<tokens, nb_tasks, max_nb_stations, cycle_time, processing_time,
                   successors>>

Next == Construct \/ ConstructMissing \/ Supply \/ Evaluate \/ Release

Spec == Init /\ [][Next]_vars

\* The file-based life of an instance: loaded once, then scored on candidates
\* drawn from random_solution().
NextLoad == LoadTimes \/ LoadTail \/ LoadBroken \/ SupplyRandom \/ Evaluate \/ Release

SpecLoad == Init /\ [][NextLoad]_vars

\* ------------------------------------------------------ terms of the claims
\* The data model's invariants on an instance.
WellFormed ==
    /\ nb_tasks > 0
    /\ cycle_time > 0
    /\ Len(processing_time) = nb_tasks
    /\ \A k \in 1 .. Len(processing_time) : processing_time[k] >= 0
    /\ \A e \in 1 .. Len(successors) :
        /\ 0 <= successors[e].key /\ successors[e].key < nb_tasks
        /\ \A j \in 1 .. Len(successors[e].succs) :
              0 <= successors[e].succs[j] /\ successors[e].succs[j] < nb_tasks

Constructed == pc \in {"ready", "called", "returned"}
Evaluated == pc = "returned"
Items == solution.items

\* The candidate is an assignment: a list or tuple with one entry per task.
WellShaped == solution.type \in {"list", "tuple"} /\ Len(Items) = nb_tasks

\* Every entry is an integer in [0, max_station_count).
ValidStations ==
    \A k \in 1 .. Len(Items) :
        Items[k].int /\ 0 <= Items[k].v /\ Items[k].v < max_nb_stations

\* Total processing time of the tasks assigned to the station of task k.
RECURSIVE TotalUpTo(_, _)
TotalUpTo(st, k) ==
    IF k = 0 THEN 0
    ELSE TotalUpTo(st, k - 1) + (IF Items[k] = st THEN processing_time[k] ELSE 0)
StationTotal(st) == TotalUpTo(st, Len(Items))

SomeStationOver == \E k \in 1 .. Len(Items) : StationTotal(Items[k]) > cycle_time

\* Some recorded pair (p, s) has assignment[p] > assignment[s].
SomePairViolated ==
    \E e \in 1 .. Len(successors) : \E j \in 1 .. Len(successors[e].succs) :
        Num2(Items[successors[e].key + 1]) > Num2(Items[successors[e].succs[j] + 1])

ReturnedPenalty == result.kind = "return" /\ result.value = PENALTY
ReturnedCount == result.kind = "return" /\ result.value # PENALTY

DistinctStations == Cardinality({Items[k].v : k \in 1 .. Len(Items)})
HighestStation == CHOOSE m \in {Items[k].v : k \in 1 .. Len(Items)} :
                      \A k \in 1 .. Len(Items) : Items[k].v <= m

\* ------------------------------------------------------------------ claims

\* C1: on a well-formed instance, an assignment of length task_count whose
\* stations are all valid, whose station totals all respect the cycle time and
\* which violates no precedence pair is scored with the number of distinct
\* station indices it uses; and whenever the evaluator reaches its objective
\* step, on any instance, that is the value it returns.
C1_ObjectiveIsDistinctCount ==
    /\ (Evaluated /\ WellFormed /\ WellShaped /\ ValidStations
            /\ ~SomeStationOver /\ ~SomePairViolated)
        => (result.kind = "return" /\ result.value = DistinctStations)
    /\ (Evaluated /\ result.stage = "objective")
        => (result.kind = "return" /\ result.value = DistinctStations)

\* A feasible assignment whose count differs from the highest index plus one,
\* from task_count and from max_station_count has been scored.
C1_Witness ==
    /\ Evaluated /\ WellFormed /\ WellShaped /\ ValidStations
    /\ ~SomeStationOver /\ ~SomePairViolated
    /\ result.value = DistinctStations
    /\ DistinctStations # HighestStation + 1
    /\ DistinctStations # nb_tasks
    /\ DistinctStations # max_nb_stations

\* C2: on a well-formed instance, an assignment of length task_count that
\* puts some recorded predecessor at a station strictly after its successor's
\* is scored with the penalty sentinel.
C2_PrecedenceViolationPenalised ==
    (Evaluated /\ WellFormed /\ WellShaped /\ SomePairViolated) => ReturnedPenalty

\* A precedence violation was the only fault of a scored assignment.
C2_Witness ==
    /\ Evaluated /\ WellFormed /\ WellShaped /\ SomePairViolated
    /\ ValidStations /\ ~SomeStationOver
    /\ ReturnedPenalty

\* C3: on a well-formed instance (processing times non-negative), for an
\* assignment of length task_count with valid stations: if some station's
\* total exceeds cycle_time_limit the penalty is returned; if none does (a
\* total equal to the limit included) and no precedence pair is violated, a
\* station count is returned; and the capacity step is where evaluation ends
\* exactly when some station's final total exceeds the limit.
C3_CapacityBoundary ==
    (Evaluated /\ WellFormed /\ WellShaped /\ ValidStations) =>
        /\ SomeStationOver => ReturnedPenalty
        /\ (~SomeStationOver /\ ~SomePairViolated) => ReturnedCount
        /\ (result.stage = "capacity") <=> SomeStationOver

\* Two tasks with positive times fill a station exactly to the limit and the
\* assignment is scored with a station count.
C3_Witness ==
    /\ Evaluated /\ WellFormed /\ WellShaped /\ ValidStations /\ ~SomePairViolated
    /\ \E k \in 1 .. Len(Items) : \E j \in 1 .. Len(Items) :
        /\ k # j /\ Items[k] = Items[j]
        /\ processing_time[k] > 0 /\ processing_time[j] > 0
        /\ StationTotal(Items[k]) = cycle_time
    /\ ReturnedCount

\* C4 as stated: for any constructed instance the penalty sentinel is
\* strictly greater than task_count.
C4_PenaltyAboveAnyTaskCount == Constructed => PENALTY > nb_tasks

\* C4 amended: for any instance whose task_count is below 10^9 the penalty
\* sentinel is strictly greater than task_count, every station count the
\* evaluator returns is at most task_count, and so every value it returns
\* other than a station count is strictly greater than every station count.
C4_PenaltyDominatesBelowSentinel ==
    (Constructed /\ nb_tasks < 1000000000) =>
        /\ PENALTY > nb_tasks
        /\ (Evaluated /\ result.stage = "objective") =>
                (result.value <= nb_tasks /\ result.value < PENALTY)
        /\ (Evaluated /\ result.kind = "return" /\ result.stage # "objective") =>
                result.value > nb_tasks

\* The penalty was returned for an instance with the most tasks of the model.
C4_Witness ==
    /\ Evaluated /\ nb_tasks = MaxTasks
    /\ result.kind = "return" /\ result.stage # "objective"

\* C5: an assignment of length task_count with an entry that is not an
\* integer, is negative or is >= max_station_count is scored with the penalty
\* sentinel at the station-validity step, on any instance: no capacity or
\* precedence check runs and nothing is raised.
C5_InvalidStationPenalised ==
    (Evaluated /\ WellShaped /\ ~ValidStations) =>
        (ReturnedPenalty /\ result.stage = "station")

\* An assignment with a negative entry, all of whose tasks take no time, was
\* scored with the penalty.
C5_Witness ==
    /\ Evaluated /\ WellShaped /\ WellFormed
    /\ \E k \in 1 .. Len(Items) : Items[k].int /\ Items[k].v < 0
    /\ \A k \in 1 .. Len(Items) : processing_time[k] = 0
    /\ ReturnedPenalty

\* C6: a candidate that is not a list or tuple, or whose length differs from
\* task_count, makes evaluate_solution raise ValueError, whatever its entries.
C6_BadShapeRaises ==
    (Evaluated /\ ~WellShaped) =>
        (result.kind = "raise" /\ result.error = "ValueError")

\* A list of length task_count - 1 holding an out-of-range entry raised.
C6_Witness ==
    /\ Evaluated /\ solution.type = "list" /\ Len(Items) = nb_tasks - 1
    /\ ~ValidStations
    /\ result.kind = "raise"

\* The (task number, time) section of the loaded file, by its place in the
\* file format: 12 tokens precede it.
FileTaskCount == tokens[4].a
FileTaskNumber(k) == tokens[12 + 2 * k - 1].a
FileTime(k) == tokens[12 + 2 * k].a
Loaded == pc \in {"ready", "called", "returned"} /\ tokens # <<>>
\* The pairs list each task 1 .. task_count once, in any order.
ListsEveryTaskOnce ==
    \A t \in 1 .. FileTaskCount :
        Cardinality({k \in 1 .. FileTaskCount : FileTaskNumber(k) = t}) = 1

\* C7: after loading a file whose pairs list each task once, in any order,
\* processing_time[i] is the time the file records for task i + 1.
C7_RoundTripIndexing ==
    (Loaded /\ ListsEveryTaskOnce) =>
        /\ Len(processing_time) = FileTaskCount
        /\ \A k \in 1 .. FileTaskCount :
              processing_time[FileTaskNumber(k)] = FileTime(k)

\* A file listing task 2 before task 1, with different times, was loaded.
C7_Witness ==
    /\ Loaded /\ ListsEveryTaskOnce /\ FileTaskCount >= 2
    /\ FileTaskNumber(1) = 2 /\ FileTaskNumber(2) = 1
    /\ FileTime(1) # FileTime(2)
    /\ processing_time[1] = FileTime(2)

\* C8: every instance a file load produces has exactly task_count processing
\* times.
C8_TimesCoverEveryTask == Loaded => Len(processing_time) = nb_tasks

\* C9: every instance a file load produces has all indices of successors,
\* keys and values, in [0, task_count).
C9_SuccessorsInRange ==
    Loaded =>
        \A e \in 1 .. Len(successors) :
            /\ 0 <= successors[e].key /\ successors[e].key < nb_tasks
            /\ \A j \in 1 .. Len(successors[e].succs) :
                  0 <= successors[e].succs[j] /\ successors[e].succs[j] < nb_tasks

\* C10: a call of evaluate_solution, whatever its outcome, leaves the five
\* instance fields and the supplied object as they were, and evaluating the
\* same object again right after it yields the outcome just obtained.
C10_EvaluationIsPure ==
    [][(pc = "called" /\ pc' = "returned") =>
          /\ self' = self
          /\ solution' = solution
          /\ result' = evaluate_solution(solution)']_vars

\* A call ended with a penalty found by the capacity step, after station
\* totals were accumulated.
C10_Witness ==
    /\ Evaluated /\ WellFormed /\ WellShaped
    /\ ReturnedPenalty /\ result.stage = "capacity"

====
